---- MODULE Spec2Model ----
(***************************************************************************)
(* Eterna front end (src/frontend/script.js): the token collection kept by *)
(* the browser, fed by bulk fetches and by socket.io events, and the       *)
(* paginated view derived from it.                                         *)
(*                                                                         *)
(* A JavaScript object is a function from the names of its own properties  *)
(* to their values; a property the object lacks is outside DOMAIN.  null   *)
(* and undefined array elements are the value Null, on which a property    *)
(* read throws a TypeError.  Numbers stand for all scalar values.          *)
(***************************************************************************)
EXTENDS Integers, Sequences, FiniteSets, TLC

VARIABLES
    allTokens,       \* script.js:11
    filteredTokens,  \* script.js:12
    aliased,         \* indices i where filteredTokens[i] is the very object allTokens[i]
    currentPage,     \* script.js:13
    updateCount,     \* script.js:15
    status,          \* the #status element
    pending,         \* call sites whose fetchTokens is suspended at its await
    dom,             \* what renderTokens, updatePagination and updateStats last wrote
    lastOp           \* the handler that ran last and how it ended

vars == <<allTokens, filteredTokens, aliased, currentPage, updateCount,
          status, pending, dom, lastOp>>

-----------------------------------------------------------------------------
(* Program constants *)

tokensPerPage == 25

MaxTokens == 100

(* Bounds of the model *)

\* counted channel events in one behaviour of Spec
MaxUpdates == 2

-----------------------------------------------------------------------------
(* JavaScript values *)

\* the value of a property an object lacks, and of an absent argument
Undefined == 0 - 1

\* a null or undefined array element or payload
Null == [null |-> TRUE]

IsNull(v) == "null" \in DOMAIN v

\* obj.f
Get(obj, f) == IF f \in DOMAIN obj THEN obj[f] ELSE Undefined

\* ToBoolean of a scalar: undefined and 0 are falsy
Truthy(v) == v # Undefined /\ v # 0

\* { ...base, ...patch }
Spread(base, patch) ==
    [f \in (DOMAIN base) \cup (DOMAIN patch) |->
        IF f \in DOMAIN patch THEN patch[f] ELSE base[f]]

\* obj.f = v, on a copy
Assign(obj, f, v) ==
    [g \in (DOMAIN obj) \cup {f} |-> IF g = f THEN v ELSE obj[g]]

Min(a, b) == IF a < b THEN a ELSE b

Max(a, b) == IF a > b THEN a ELSE b

\* Array.prototype.slice(start, end) with 0-based start, end exclusive
Slice(s, start, end) ==
    LET lo == Min(start, Len(s))
        hi == Min(end, Len(s))
    IN  IF lo >= hi THEN <<>> ELSE [i \in 1..(hi - lo) |-> s[lo + i]]

\* Math.ceil(n / tokensPerPage)
TotalPages(n) == (n + tokensPerPage - 1) \div tokensPerPage

\* allTokens.findIndex(t => t.token_address === addr), 1-based, 0 for -1
FindIndex(tokens, addr) ==
    LET hits == {i \in 1..Len(tokens) : Get(tokens[i], "token_address") = addr}
    IN  IF hits = {} THEN 0 ELSE CHOOSE i \in hits : \A j \in hits : i <= j

-----------------------------------------------------------------------------
(* Rendering *)

\* VolumeOf without the volume_24h format
VolumeOf_SolOnly(t) ==
    IF Truthy(Get(t, "volume_sol")) THEN Get(t, "volume_sol") ELSE 0

\* parseFloat(t.volume_sol || t.volume_24h || 0)
VolumeOf(t) ==
    IF Truthy(Get(t, "volume_sol")) THEN Get(t, "volume_sol")
    ELSE IF Truthy(Get(t, "volume_24h")) THEN Get(t, "volume_24h")
    ELSE 0

RECURSIVE SumVolume(_)
\* allTokens.reduce((sum, t) => sum + parseFloat(...), 0)
SumVolume(tokens) ==
    IF tokens = <<>> THEN 0
    ELSE VolumeOf(Head(tokens)) + SumVolume(Tail(tokens))

\* updatePagination
updatePagination(d, filtered, page) ==
    [d EXCEPT !.pageInfo = [page |-> page,
                            totalPages |-> TotalPages(Len(filtered)),
                            prevDisabled |-> (page = 1),
                            nextDisabled |-> (page >= TotalPages(Len(filtered)))]]

\* updateStats
updateStats(d, all, count) ==
    [d EXCEPT !.totalTokens = Len(all),
              !.liveUpdates = count,
              !.totalVolume = SumVolume(all)]

\* PageSlice with start = currentPage * tokensPerPage
PageSlice_FromPage(filtered, page) ==
    Slice(filtered, page * tokensPerPage, page * tokensPerPage + tokensPerPage)

\* the slice renderTokens takes
PageSlice(filtered, page) ==
    Slice(filtered, (page - 1) * tokensPerPage, (page - 1) * tokensPerPage + tokensPerPage)

\* renderTokens: the empty page returns before pagination and stats are written
renderTokens(d, all, filtered, page, count) ==
    LET pageTokens == PageSlice(filtered, page)
    IN  IF Len(pageTokens) = 0
        THEN [d EXCEPT !.pageTokens = <<>>]
        ELSE updateStats(
                 updatePagination([d EXCEPT !.pageTokens = pageTokens], filtered, page),
                 all, count)

\* applyClientFilters: filteredTokens = [...allTokens]; renderTokens()
applyClientFilters(all, page, count) ==
    /\ filteredTokens' = all
    /\ aliased' = 1..Len(all)
    /\ dom' = renderTokens(dom, all, all, page, count)

Op(name, rendered, threw) == [name |-> name, rendered |-> rendered, threw |-> threw]

-----------------------------------------------------------------------------
(* Initial state: the script has run to its end, line 233 has issued the   *)
(* first fetchTokens, which is suspended at its await.  The elements the   *)
(* script writes start as an empty list, "Page 1 of 1" and zero stats.     *)
(* highlightToken only toggles a CSS class from timers and is left out.    *)

Init ==
    /\ allTokens = <<>>
    /\ filteredTokens = <<>>
    /\ aliased = {}
    /\ currentPage = 1
    /\ updateCount = 0
    /\ status = "connecting"
    /\ pending = {"init"}
    /\ dom = [pageTokens |-> <<>>,
              pageInfo |-> [page |-> 1, totalPages |-> 1,
                            prevDisabled |-> TRUE, nextDisabled |-> TRUE],
              totalTokens |-> 0, liveUpdates |-> 0, totalVolume |-> 0]
    /\ lastOp = Op("init", FALSE, FALSE)

-----------------------------------------------------------------------------
(* Bulk fetch.  A response body is                                          *)
(*   "nested"  { success, data: { data: [...], pagination } }               *)
(*   "flat"    { data: [...] }                                              *)
(*   "empty"   an object whose data is null or missing                      *)
(*   "object"  { data: {...} } with no array inside                         *)
(*   "error"   fetch rejected, or response.json() threw                     *)

\* Unwrap reading data.data alone: the nested envelope yields an object
Unwrap_FlatOnly(resp) ==
    IF resp.kind = "flat" THEN [threw |-> FALSE, tokens |-> resp.tokens]
    ELSE IF resp.kind = "empty" THEN [threw |-> FALSE, tokens |-> <<>>]
    ELSE [threw |-> TRUE, tokens |-> <<>>]

\* data.data?.data || data.data || [], then .length and .map on the result:
\* a result that is no array throws at .map
Unwrap(resp) ==
    IF resp.kind \in {"nested", "flat"} THEN [threw |-> FALSE, tokens |-> resp.tokens]
    ELSE IF resp.kind = "empty" THEN [threw |-> FALSE, tokens |-> <<>>]
    ELSE [threw |-> TRUE, tokens |-> <<>>]

\* CatchTokens with the assignment left out
CatchTokens_KeepPrevious(previous) == previous

\* the catch block's assignment, allTokens = []
CatchTokens(previous) == <<>>

\* fetchTokens up to its first await: the request is sent.  The model
\* keeps at most one request of each call site ("init", "connect",
\* "applyFilters") in flight.
IssueFetch(site) ==
    /\ site \notin pending
    /\ pending' = pending \cup {site}

\* fetchTokens with a staleness check: the response to the first request is
\* dropped once the response to the request of connect has been applied
fetchTokens_DropStale(req, resp) ==
    /\ req \in pending
    /\ pending' = pending \ {req}
    /\ IF req = "init" /\ status # "connecting" /\ "connect" \notin pending
       THEN /\ UNCHANGED <<allTokens, filteredTokens, aliased, dom>>
            /\ lastOp' = Op("fetchTokens", FALSE, FALSE)
       ELSE LET r == Unwrap(resp)
                failed == resp.kind = "error" \/ r.threw
                tokens == IF failed THEN CatchTokens(allTokens) ELSE r.tokens
            IN  /\ allTokens' = tokens
                /\ applyClientFilters(tokens, currentPage, updateCount)
                /\ lastOp' = Op(IF failed THEN "fetchTokens_catch" ELSE "fetchTokens",
                                TRUE, FALSE)
    /\ UNCHANGED <<currentPage, updateCount, status>>

\* fetchTokens from its await to its end, on the response to request req
fetchTokens(req, resp) ==
    /\ req \in pending
    /\ pending' = pending \ {req}
    /\ LET r == Unwrap(resp)
           failed == resp.kind = "error" \/ r.threw
           tokens == IF failed THEN CatchTokens(allTokens) ELSE r.tokens
       IN  /\ allTokens' = tokens
           /\ applyClientFilters(tokens, currentPage, updateCount)
           /\ lastOp' = Op(IF failed THEN "fetchTokens_catch" ELSE "fetchTokens",
                           TRUE, FALSE)
    /\ UNCHANGED <<currentPage, updateCount, status>>

\* applyFilters: fetchTokens(params) runs to its await, then currentPage = 1
applyFilters ==
    /\ IssueFetch("applyFilters")
    /\ currentPage' = 1
    /\ lastOp' = Op("applyFilters", FALSE, FALSE)
    /\ UNCHANGED <<allTokens, filteredTokens, aliased, updateCount, status, dom>>

prevPage ==
    /\ IF currentPage > 1
       THEN /\ currentPage' = currentPage - 1
            /\ dom' = renderTokens(dom, allTokens, filteredTokens,
                                   currentPage - 1, updateCount)
            /\ lastOp' = Op("prevPage", TRUE, FALSE)
       ELSE /\ UNCHANGED <<currentPage, dom>>
            /\ lastOp' = Op("prevPage", FALSE, FALSE)
    /\ UNCHANGED <<allTokens, filteredTokens, aliased, updateCount, status,
                   pending>>

nextPage ==
    /\ IF currentPage < TotalPages(Len(filteredTokens))
       THEN /\ currentPage' = currentPage + 1
            /\ dom' = renderTokens(dom, allTokens, filteredTokens,
                                   currentPage + 1, updateCount)
            /\ lastOp' = Op("nextPage", TRUE, FALSE)
       ELSE /\ UNCHANGED <<currentPage, dom>>
            /\ lastOp' = Op("nextPage", FALSE, FALSE)
    /\ UNCHANGED <<allTokens, filteredTokens, aliased, updateCount, status,
                   pending>>

-----------------------------------------------------------------------------
(* Socket handlers.  event.data is Null (null or missing), an array        *)
(* [kind |-> "array", items |-> ...] or a single object                    *)
(* [kind |-> "object", item |-> ...].                                      *)

\* event.data && Array.isArray(event.data)
IsArrayData(data) == ~IsNull(data) /\ data.kind = "array"

\* Array.isArray(event.data) ? event.data : [event.data]
AsArray(data) ==
    IF IsNull(data) THEN <<Null>>
    ELSE IF data.kind = "array" THEN data.items
    ELSE <<data.item>>

connect ==
    /\ status # "connected"
    /\ status' = "connected"
    /\ IssueFetch("connect")
    /\ lastOp' = Op("connect", FALSE, FALSE)
    /\ UNCHANGED <<allTokens, filteredTokens, aliased, currentPage, updateCount, dom>>

disconnect ==
    /\ status = "connected"
    /\ status' = "disconnected"
    /\ lastOp' = Op("disconnect", FALSE, FALSE)
    /\ UNCHANGED <<allTokens, filteredTokens, aliased, currentPage, updateCount,
                   pending, dom>>

\* initial_data with data that is no array installed as the empty array
initial_data_EmptyOnMalformed(event) ==
    /\ status = "connected"
    /\ LET items == IF IsArrayData(event.data) THEN event.data.items ELSE <<>>
       IN  /\ allTokens' = items
           /\ applyClientFilters(items, currentPage, updateCount)
           /\ lastOp' = Op("initial_data", IsArrayData(event.data), FALSE)
    /\ UNCHANGED <<currentPage, updateCount, status, pending>>

initial_data(event) ==
    /\ status = "connected"
    /\ IF IsArrayData(event.data)
       THEN /\ allTokens' = event.data.items
            /\ applyClientFilters(event.data.items, currentPage, updateCount)
            /\ lastOp' = Op("initial_data", TRUE, FALSE)
       ELSE /\ UNCHANGED <<allTokens, filteredTokens, aliased, dom>>
            /\ lastOp' = Op("initial_data", FALSE, FALSE)
    /\ UNCHANGED <<currentPage, updateCount, status, pending>>

\* MergePatch with the stored record replaced by the patch
MergePatch_Replace(stored, updated) == updated

\* { ...allTokens[idx], ...updated }
MergePatch(stored, updated) == Spread(stored, updated)

RECURSIVE ApplyUpdates_Upsert(_, _, _)
\* ApplyUpdates with an item that matches no record pushed as a new record
ApplyUpdates_Upsert(tokens, touched, items) ==
    IF items = <<>> THEN [tokens |-> tokens, touched |-> touched, threw |-> FALSE]
    ELSE LET updated == Head(items)
         IN  IF IsNull(updated)
             THEN IF tokens # <<>>
                  THEN [tokens |-> tokens, touched |-> touched, threw |-> TRUE]
                  ELSE ApplyUpdates_Upsert(tokens, touched, Tail(items))
             ELSE LET idx == FindIndex(tokens, Get(updated, "token_address"))
                  IN  IF idx # 0
                      THEN ApplyUpdates_Upsert(
                               [tokens EXCEPT ![idx] = Spread(tokens[idx], updated)],
                               touched \cup {idx}, Tail(items))
                      ELSE ApplyUpdates_Upsert(Append(tokens, updated), touched,
                                               Tail(items))

RECURSIVE ApplyUpdates_OncePerRecord(_, _, _)
\* ApplyUpdates with a record patched at most once in a batch
ApplyUpdates_OncePerRecord(tokens, touched, items) ==
    IF items = <<>> THEN [tokens |-> tokens, touched |-> touched, threw |-> FALSE]
    ELSE LET updated == Head(items)
         IN  IF IsNull(updated)
             THEN IF tokens # <<>>
                  THEN [tokens |-> tokens, touched |-> touched, threw |-> TRUE]
                  ELSE ApplyUpdates_OncePerRecord(tokens, touched, Tail(items))
             ELSE LET idx == FindIndex(tokens, Get(updated, "token_address"))
                  IN  IF idx # 0 /\ idx \notin touched
                      THEN ApplyUpdates_OncePerRecord(
                               [tokens EXCEPT ![idx] = Spread(tokens[idx], updated)],
                               touched \cup {idx}, Tail(items))
                      ELSE ApplyUpdates_OncePerRecord(tokens, touched, Tail(items))

RECURSIVE ApplyUpdates_MoveToFront(_, _, _)
\* ApplyUpdates with the patched record moved to the head of the collection
ApplyUpdates_MoveToFront(tokens, touched, items) ==
    IF items = <<>> THEN [tokens |-> tokens, touched |-> touched, threw |-> FALSE]
    ELSE LET updated == Head(items)
         IN  IF IsNull(updated)
             THEN IF tokens # <<>>
                  THEN [tokens |-> tokens, touched |-> touched, threw |-> TRUE]
                  ELSE ApplyUpdates_MoveToFront(tokens, touched, Tail(items))
             ELSE LET idx == FindIndex(tokens, Get(updated, "token_address"))
                  IN  IF idx # 0
                      THEN ApplyUpdates_MoveToFront(
                               <<Spread(tokens[idx], updated)>>
                                   \o SubSeq(tokens, 1, idx - 1)
                                   \o SubSeq(tokens, idx + 1, Len(tokens)),
                               1..Len(tokens), Tail(items))
                      ELSE ApplyUpdates_MoveToFront(tokens, touched, Tail(items))

RECURSIVE ApplyUpdates(_, _, _)
\* the forEach of tokens_updated over the items left, from the collection so
\* far; touched are the indices whose object was replaced.  A Null item
\* throws when the findIndex callback first reads updated.token_address,
\* that is, when the collection has an element to test.
ApplyUpdates(tokens, touched, items) ==
    IF items = <<>> THEN [tokens |-> tokens, touched |-> touched, threw |-> FALSE]
    ELSE LET updated == Head(items)
         IN  IF IsNull(updated)
             THEN IF tokens # <<>>
                  THEN [tokens |-> tokens, touched |-> touched, threw |-> TRUE]
                  ELSE ApplyUpdates(tokens, touched, Tail(items))
             ELSE LET idx == FindIndex(tokens, Get(updated, "token_address"))
                  IN  IF idx # 0
                      THEN ApplyUpdates(
                               [tokens EXCEPT ![idx] = MergePatch(tokens[idx], updated)],
                               touched \cup {idx}, Tail(items))
                      ELSE ApplyUpdates(tokens, touched, Tail(items))

\* tokens_updated with the counter raised once for each record patched
tokens_updated_CountPerRecord(event) ==
    /\ status = "connected"
    /\ IF IsArrayData(event.data)
       THEN LET r == ApplyUpdates(allTokens, {}, event.data.items)
                count == updateCount + Cardinality(r.touched)
            IN  /\ updateCount' = count
                /\ allTokens' = r.tokens
                /\ IF r.threw
                   THEN /\ aliased' = aliased \ r.touched
                        /\ UNCHANGED <<filteredTokens, dom>>
                   ELSE applyClientFilters(r.tokens, currentPage, count)
                /\ lastOp' = Op("tokens_updated", ~r.threw, r.threw)
       ELSE /\ UNCHANGED <<allTokens, filteredTokens, aliased, dom, updateCount>>
            /\ lastOp' = Op("tokens_updated", FALSE, FALSE)
    /\ UNCHANGED <<currentPage, status, pending>>

tokens_updated(event) ==
    /\ status = "connected"
    /\ updateCount' = updateCount + 1
    /\ IF IsArrayData(event.data)
       THEN LET r == ApplyUpdates(allTokens, {}, event.data.items)
            IN  /\ allTokens' = r.tokens
                /\ IF r.threw
                   THEN /\ aliased' = aliased \ r.touched
                        /\ UNCHANGED <<filteredTokens, dom>>
                   ELSE applyClientFilters(r.tokens, currentPage, updateCount + 1)
                /\ lastOp' = Op("tokens_updated", ~r.threw, r.threw)
       ELSE /\ UNCHANGED <<allTokens, filteredTokens, aliased, dom>>
            /\ lastOp' = Op("tokens_updated", FALSE, FALSE)
    /\ UNCHANGED <<currentPage, status, pending>>

\* token.price_sol = update.new_price; token.price_24hr_change = update.change_percent
PriceTick(token, update) ==
    Assign(Assign(token, "price_sol", Get(update, "new_price")),
           "price_24hr_change", Get(update, "change_percent"))

\* token.volume_sol = spike.new_volume
VolumeTick(token, spike) == Assign(token, "volume_sol", Get(spike, "new_volume"))

Tick(kind, token, item) ==
    IF kind = "price_update" THEN PriceTick(token, item) ELSE VolumeTick(token, item)

RECURSIVE ApplyTicks(_, _, _, _)
\* the forEach of price_update and volume_spike: the found object is written
\* in place, so filteredTokens sees the write where it holds the same object
ApplyTicks(kind, tokens, filtered, items) ==
    IF items = <<>> THEN [tokens |-> tokens, filtered |-> filtered, threw |-> FALSE]
    ELSE LET item == Head(items)
         IN  IF IsNull(item)
             THEN IF tokens # <<>>
                  THEN [tokens |-> tokens, filtered |-> filtered, threw |-> TRUE]
                  ELSE ApplyTicks(kind, tokens, filtered, Tail(items))
             ELSE LET idx == FindIndex(tokens, Get(item, "token_address"))
                  IN  IF idx # 0
                      THEN LET written == Tick(kind, tokens[idx], item)
                           IN  ApplyTicks(kind,
                                   [tokens EXCEPT ![idx] = written],
                                   IF idx \in aliased
                                   THEN [filtered EXCEPT ![idx] = written]
                                   ELSE filtered,
                                   Tail(items))
                      ELSE ApplyTicks(kind, tokens, filtered, Tail(items))

TickHandler(kind, event) ==
    /\ status = "connected"
    /\ updateCount' = updateCount + 1
    /\ LET r == ApplyTicks(kind, allTokens, filteredTokens, AsArray(event.data))
       IN  /\ allTokens' = r.tokens
           /\ IF r.threw
              THEN /\ filteredTokens' = r.filtered
                   /\ UNCHANGED <<aliased, dom>>
              ELSE applyClientFilters(r.tokens, currentPage, updateCount + 1)
           /\ lastOp' = Op(kind, ~r.threw, r.threw)
    /\ UNCHANGED <<currentPage, status, pending>>

price_update(event) == TickHandler("price_update", event)

volume_spike(event) == TickHandler("volume_spike", event)

\* InsertNew with the eviction one insertion early (length >= 100)
InsertNew_EvictAtBound(tokens, record) ==
    LET grown == <<record>> \o tokens
    IN  IF Len(grown) >= MaxTokens THEN SubSeq(grown, 1, Len(grown) - 1) ELSE grown

\* allTokens.unshift(event.data); if (allTokens.length > 100) allTokens.pop()
InsertNew(tokens, record) ==
    LET grown == <<record>> \o tokens
    IN  IF Len(grown) > MaxTokens THEN SubSeq(grown, 1, Len(grown) - 1) ELSE grown

new_token(event) ==
    /\ status = "connected"
    /\ updateCount' = updateCount + 1
    /\ IF ~IsNull(event.data)
       THEN /\ allTokens' = InsertNew(allTokens, event.data.item)
            /\ applyClientFilters(InsertNew(allTokens, event.data.item),
                                  currentPage, updateCount + 1)
            /\ lastOp' = Op("new_token", TRUE, FALSE)
       ELSE /\ UNCHANGED <<allTokens, filteredTokens, aliased, dom>>
            /\ lastOp' = Op("new_token", FALSE, FALSE)
    /\ UNCHANGED <<currentPage, status, pending>>

-----------------------------------------------------------------------------
(* Spec: the channel events and the fetch responses over two listed        *)
(* tokens and one address the server never lists, in batches of at most    *)
(* MaxBatch items.  Every collection here fits on one page; the page       *)
(* buttons and applyFilters are in SpecPage.                               *)

MaxBatch == 2

\* a listed token with every field the page shows
Token(a) == [token_address |-> a, token_name |-> a, price_sol |-> 1,
             price_24hr_change |-> 1, volume_sol |-> 1]

\* a listed token the server sent with its address and price only
Sparse(a) == [token_address |-> a, price_sol |-> 1]

Snapshots == {<<>>, <<Token(1)>>, <<Token(1), Sparse(2)>>}

SeqsUpTo(S, n) == UNION {[1..k -> S] : k \in 0..n}

Responses ==
    {[kind |-> "nested", tokens |-> s] : s \in Snapshots}
    \cup {[kind |-> "flat", tokens |-> <<Token(1)>>]}
    \cup {[kind |-> "empty"], [kind |-> "object"], [kind |-> "error"]}

\* event.data of the events that carry a list, over the items given:
\* nothing, each array of at most MaxBatch items, and one bare object
ListData(items, bare) ==
    {Null, [kind |-> "object", item |-> bare]}
    \cup {[kind |-> "array", items |-> s] : s \in SeqsUpTo(items, MaxBatch)}

SnapshotEvents ==
    {[data |-> d] : d \in {Null, [kind |-> "object", item |-> Token(1)]}
                          \cup {[kind |-> "array", items |-> s] : s \in Snapshots}}

\* a malformed item and two patches of token 1: price_sol is in both,
\* liquidity_sol and volume_sol in one each, the other fields in neither
PatchItems ==
    {Null,
     [token_address |-> 1, price_sol |-> 2, liquidity_sol |-> 2],
     [token_address |-> 1, price_sol |-> 3, volume_sol |-> 2]}

PatchEvents ==
    {[data |-> d] : d \in ListData(PatchItems, [token_address |-> 1, price_sol |-> 2])}

\* the batch without its malformed items
WellFormed(items) == SelectSeq(items, LAMBDA item : ~IsNull(item))

PriceItems ==
    {Null,
     [token_address |-> 1, new_price |-> 2, change_percent |-> 2],
     [token_address |-> 2, new_price |-> 2]}

\* the bare tick is a price for token 1 that carries no change_percent
PriceEvents ==
    {[data |-> d] : d \in ListData(PriceItems, [token_address |-> 1, new_price |-> 3])}

VolumeItems == {Null, [token_address |-> 1, new_volume |-> 2]}

VolumeEvents ==
    {[data |-> d] : d \in ListData(VolumeItems, [token_address |-> 1, new_volume |-> 2])}

NewTokenEvents ==
    {[data |-> Null]}
    \cup {[data |-> [kind |-> "object", item |-> Token(a)]] : a \in {1, 3}}

Next ==
    \/ \E req \in pending, resp \in Responses : fetchTokens(req, resp)
    \/ connect
    \/ disconnect
    \/ \E event \in SnapshotEvents : initial_data(event)
    \/ updateCount < MaxUpdates /\ \E event \in PatchEvents : tokens_updated(event)
    \/ updateCount < MaxUpdates /\ \E event \in PriceEvents : price_update(event)
    \/ updateCount < MaxUpdates /\ \E event \in VolumeEvents : volume_spike(event)
    \/ updateCount < MaxUpdates /\ \E event \in NewTokenEvents : new_token(event)

Spec == Init /\ [][Next]_vars

-----------------------------------------------------------------------------
(* SpecPage: snapshots long enough to fill several pages, and the page     *)
(* buttons.                                                                *)

\* full pages in the longest snapshot
MaxPages == 1

\* counted channel events in one behaviour of SpecPage
MaxPageUpdates == 1

\* the snapshot of the tokens 1..n
Listing(n) == [i \in 1..n |-> Sparse(i)]

\* snapshot lengths at and just past each page boundary
PageSizes ==
    {n \in {k * tokensPerPage + d : k \in 0..MaxPages, d \in {0, 1}} : n <= MaxTokens}

PageResponses ==
    {[kind |-> "nested", tokens |-> Listing(n)] : n \in PageSizes} \cup {[kind |-> "error"]}

PageSnapshotEvents ==
    {[data |-> [kind |-> "array", items |-> Listing(n)]] : n \in PageSizes}

\* a token_address no listing holds
Unlisted == MaxTokens + 1

PageNext ==
    \/ \E req \in pending, resp \in PageResponses : fetchTokens(req, resp)
    \/ applyFilters
    \/ connect
    \/ prevPage
    \/ nextPage
    \/ \E event \in PageSnapshotEvents : initial_data(event)
    \/ updateCount < MaxPageUpdates
         /\ new_token([data |-> [kind |-> "object", item |-> Sparse(Unlisted)]])

SpecPage == Init /\ [][PageNext]_vars

-----------------------------------------------------------------------------
(* SpecFifo: new_token events with pairwise distinct addresses arriving    *)
(* before the first fetch has answered; the k-th event carries address k.  *)

\* new_token events in one behaviour of SpecFifo
MaxInserts == 101

FifoNext ==
    \/ connect
    \/ updateCount < MaxInserts
         /\ new_token([data |-> [kind |-> "object", item |-> Sparse(updateCount + 1)]])
    \/ prevPage
    \/ nextPage

SpecFifo == Init /\ [][FifoNext]_vars

-----------------------------------------------------------------------------
(* Properties *)

Addr(t) == Get(t, "token_address")

AddrSeq(tokens) == [i \in 1..Len(tokens) |-> Addr(tokens[i])]

Range(s) == {s[i] : i \in 1..Len(s)}

PatchHandlers == {"tokens_updated", "price_update", "volume_spike"}

\* C1: the collection never holds two records with one token_address.
C1_OneRecordPerAddress ==
    \A i, j \in 1..Len(allTokens) : i # j => Addr(allTokens[i]) # Addr(allTokens[j])

\* C2: while no fetch has answered, after n new_token events with distinct
\* addresses the collection is the min(n, 100) most recent of them, most
\* recent first; after the 101st the first address is gone.
C2_FifoBound ==
    LET n == updateCount
    IN  /\ Len(allTokens) = Min(n, MaxTokens)
        /\ \A i \in 1..Len(allTokens) : Addr(allTokens[i]) = n - i + 1
        /\ n = MaxTokens + 1 =>
               /\ Len(allTokens) = MaxTokens
               /\ Range(AddrSeq(allTokens)) = 2..(MaxTokens + 1)

\* the 101st distinct new_token has been applied
C2_Witness ==
    /\ lastOp.name = "new_token"
    /\ updateCount = MaxTokens + 1
    /\ Addr(allTokens[1]) = MaxTokens + 1
    /\ Addr(allTokens[Len(allTokens)]) = 2

\* a batch of objects, no two of them for one address
OneItemPerAddress(items) ==
    /\ \A k \in 1..Len(items) : ~IsNull(items[k])
    /\ \A j, k \in 1..Len(items) : j # k => Addr(items[j]) # Addr(items[k])

C3_Events ==
    {event \in PatchEvents :
        IsArrayData(event.data) /\ OneItemPerAddress(event.data.items)}

\* what C3 says of one tokens_updated step over items
C3_Step(items) ==
    /\ Len(allTokens') = Len(allTokens)
    /\ \A i \in 1..Len(allTokens) :
          LET stored == allTokens[i]
              result == allTokens'[i]
              hit == {k \in 1..Len(items) :
                        /\ Addr(items[k]) = Addr(stored)
                        /\ \A h \in 1..(i - 1) : Addr(allTokens[h]) # Addr(stored)}
          IN  IF hit = {} THEN result = stored
              ELSE LET item == items[CHOOSE k \in hit : TRUE]
                   IN  /\ DOMAIN result = (DOMAIN stored) \cup (DOMAIN item)
                       /\ \A f \in DOMAIN item : result[f] = item[f]
                       /\ \A f \in (DOMAIN stored) \ (DOMAIN item) : result[f] = stored[f]

\* C3: a tokens_updated item that matches a stored record gives the record
\* the item's value for each field the item has and leaves every other
\* field of it, and every other record, as it was.
C3_MergeKeepsAbsentFields ==
    [][lastOp'.name = "tokens_updated" =>
          \A event \in C3_Events :
             tokens_updated(event) => C3_Step(event.data.items)]_vars

\* a tokens_updated patch of price_sol and liquidity_sol has left the
\* record's other fields as the snapshot gave them
C3_Witness ==
    /\ lastOp.name = "tokens_updated"
    /\ \E i \in 1..Len(allTokens) :
          /\ Get(allTokens[i], "price_sol") = 2
          /\ Get(allTokens[i], "liquidity_sol") = 2
          /\ Get(allTokens[i], "price_24hr_change") = 1
          /\ Get(allTokens[i], "volume_sol") = 1
          /\ Get(allTokens[i], "token_name") = 1

\* the addresses the items of a payload name
ItemAddrs(items) == {Addr(items[k]) : k \in {h \in 1..Len(items) : ~IsNull(items[h])}}

\* C4: tokens_updated, price_update and volume_spike never create records:
\* the collection keeps its length and its addresses, position by position,
\* and a payload none of whose items matches a stored record changes nothing.
C4_PatchesNeverCreate ==
    [][/\ lastOp'.name \in PatchHandlers =>
            /\ Len(allTokens') = Len(allTokens)
            /\ AddrSeq(allTokens') = AddrSeq(allTokens)
       /\ lastOp'.name = "tokens_updated" /\ allTokens' # allTokens =>
            \A event \in PatchEvents :
               (/\ IsArrayData(event.data)
                /\ ItemAddrs(event.data.items) \cap Range(AddrSeq(allTokens)) = {}
               ) => ~tokens_updated(event)
       /\ lastOp'.name = "price_update" /\ allTokens' # allTokens =>
            \A event \in PriceEvents :
               ItemAddrs(AsArray(event.data)) \cap Range(AddrSeq(allTokens)) = {}
                  => ~price_update(event)
       /\ lastOp'.name = "volume_spike" /\ allTokens' # allTokens =>
            \A event \in VolumeEvents :
               ItemAddrs(AsArray(event.data)) \cap Range(AddrSeq(allTokens)) = {}
                  => ~volume_spike(event)]_vars

\* a counted tokens_updated has run to its end on a collection whose only
\* record is at an address no patch names, and the record is intact
C4_Witness ==
    /\ lastOp.name = "tokens_updated"
    /\ lastOp.rendered
    /\ dom.liveUpdates = 2
    /\ allTokens = <<Token(3)>>

\* the snapshot has replaced the collection
Installed(snapshot) ==
    /\ allTokens' = snapshot
    /\ \A i \in 1..Len(allTokens) :
          allTokens[i] \notin Range(snapshot) => allTokens[i] \notin Range(allTokens')

C5_Responses == {resp \in Responses : resp.kind \in {"nested", "flat"}}

C5_Events == {event \in SnapshotEvents : IsArrayData(event.data)}

\* C5: a fetch response or an initial_data event that carries an array makes
\* the collection that array, in its order; every record not in it is gone.
C5_SnapshotReplacesAll ==
    [][/\ lastOp'.name \in {"fetchTokens", "fetchTokens_catch"} =>
            \A req \in pending, resp \in C5_Responses :
               fetchTokens(req, resp) => Installed(resp.tokens)
       /\ lastOp'.name = "initial_data" =>
            \A event \in C5_Events :
               initial_data(event) => Installed(event.data.items)]_vars

\* the empty snapshot has been installed over a collection of two records,
\* whose count the stats still show
C5_Witness ==
    /\ lastOp.name = "fetchTokens"
    /\ allTokens = <<>>
    /\ dom.totalTokens = 2

\* C6: when a failed fetch has been handled, the collection and the view
\* are empty, no fault has left the handler and the system can go on.
C6_FailedFetchEmpties ==
    lastOp.name = "fetchTokens_catch" =>
        /\ allTokens = <<>>
        /\ filteredTokens = <<>>
        /\ dom.pageTokens = <<>>
        /\ ~lastOp.threw
        /\ ENABLED Next

\* a failed fetch has emptied a collection the stats still count
C6_Witness ==
    /\ lastOp.name = "fetchTokens_catch"
    /\ dom.totalTokens > 0
    /\ allTokens = <<>>

\* C7 as claimed: after an initial_data event whose data is no array the
\* collection and the view are empty.
C7_MalformedSnapshotEmpties ==
    lastOp.name = "initial_data" /\ ~lastOp.rendered =>
        /\ allTokens = <<>>
        /\ filteredTokens = <<>>
        /\ dom.pageTokens = <<>>

C7_Events == {event \in SnapshotEvents : ~IsArrayData(event.data)}

\* C7, amended: an initial_data event whose data is null, missing or no
\* array is ignored: the handler ends without a fault and the collection,
\* the working sequence, the page and the rendered view stay as they were.
C7_MalformedSnapshotIgnored ==
    [][lastOp'.name = "initial_data" =>
          \A event \in C7_Events :
             initial_data(event) =>
                /\ UNCHANGED <<allTokens, filteredTokens, currentPage, updateCount, dom>>
                /\ ~lastOp'.threw]_vars

\* a malformed initial_data event has left a collection of records in place
C7_Witness ==
    /\ lastOp.name = "initial_data"
    /\ ~lastOp.rendered
    /\ allTokens # <<>>
    /\ dom.pageTokens = allTokens

\* C8: a malformed item of a tokens_updated, price_update or volume_spike
\* batch is skipped alone: the collection ends as the batch without its
\* malformed items leaves it, the handler ends and the view is recomputed.
C8_MalformedItemSkipped ==
    [][/\ ~(lastOp'.name \in PatchHandlers /\ lastOp'.threw)
       /\ lastOp'.name = "tokens_updated" =>
            \A event \in PatchEvents :
               IsArrayData(event.data) /\ tokens_updated(event) =>
                  /\ allTokens' = ApplyUpdates(allTokens, {},
                                                WellFormed(event.data.items)).tokens
                  /\ filteredTokens' = allTokens'
       /\ lastOp'.name = "price_update" =>
            \A event \in PriceEvents :
               IsArrayData(event.data) /\ price_update(event) =>
                  /\ allTokens' = ApplyTicks("price_update", allTokens, filteredTokens,
                                              WellFormed(event.data.items)).tokens
                  /\ filteredTokens' = allTokens'
       /\ lastOp'.name = "volume_spike" =>
            \A event \in VolumeEvents :
               IsArrayData(event.data) /\ volume_spike(event) =>
                  /\ allTokens' = ApplyTicks("volume_spike", allTokens, filteredTokens,
                                              WellFormed(event.data.items)).tokens
                  /\ filteredTokens' = allTokens']_vars

\* C9: the page rendered for page p of n records is the records
\* (p-1)*25+1 .. min(p*25, n) of the working sequence, and the page count
\* written is ceil(n/25); 26 records give 25 on page 1, 1 on page 2, 2 pages.
C9_PageSlice ==
    lastOp.rendered =>
        LET n == Len(filteredTokens)
            p == currentPage
            shown == dom.pageTokens
            written == dom.pageInfo
        IN  /\ Len(shown) = Max(0, Min(tokensPerPage, n - (p - 1) * tokensPerPage))
            /\ \A k \in 1..Len(shown) : shown[k] = filteredTokens[(p - 1) * tokensPerPage + k]
            /\ shown # <<>> =>
                  /\ written.page = p
                  /\ (written.totalPages - 1) * tokensPerPage < n
                  /\ n <= written.totalPages * tokensPerPage
            /\ n = tokensPerPage + 1 /\ p = 1 =>
                  Len(shown) = tokensPerPage /\ written.totalPages = 2
            /\ n = tokensPerPage + 1 /\ p = 2 =>
                  Len(shown) = 1 /\ written.totalPages = 2

\* page 2 of 26 records has been rendered
C9_Witness ==
    /\ lastOp.rendered
    /\ Len(filteredTokens) = tokensPerPage + 1
    /\ currentPage = 2
    /\ Len(dom.pageTokens) = 1
    /\ dom.pageInfo.totalPages = 2

\* C10: whenever the view is rendered the page in use lies in
\* [1, max(1, totalPages)] of the collection rendered.
C10_PageInRange ==
    lastOp.rendered =>
        /\ currentPage >= 1
        /\ currentPage <= Max(1, TotalPages(Len(filteredTokens)))

C11_Responses == {resp \in PageResponses : resp.kind = "nested"}

\* C11: the snapshot that the fetch of applyFilters installs is rendered at
\* page 1, whatever page buttons and channel events ran while the fetch was
\* in flight; prevPage and nextPage move the page by one step and leave the
\* collection, its order and the update counter as they were.
C11_SortResetsPage ==
    [][/\ lastOp'.name = "fetchTokens" /\ "applyFilters" \in pending =>
            \A resp \in C11_Responses :
               fetchTokens("applyFilters", resp) =>
                  /\ currentPage' = 1
                  /\ dom'.pageTokens = Slice(resp.tokens, 0, tokensPerPage)
       /\ lastOp'.name \in {"prevPage", "nextPage"} =>
            /\ UNCHANGED <<allTokens, filteredTokens, updateCount>>
            /\ currentPage' \in {currentPage - 1, currentPage, currentPage + 1}
            /\ lastOp'.rendered =>
                  currentPage' = IF lastOp'.name = "prevPage"
                                 THEN currentPage - 1 ELSE currentPage + 1]_vars

\* the batches of two objects for one address
C12_Events ==
    {event \in PatchEvents :
        /\ IsArrayData(event.data)
        /\ Len(event.data.items) = 2
        /\ \A k \in 1..2 : ~IsNull(event.data.items[k])
        /\ Addr(event.data.items[1]) = Addr(event.data.items[2])}

\* what C12 says of one tokens_updated step over first and second
C12_Step(first, second) ==
    LET idx == FindIndex(allTokens, Addr(first))
    IN  /\ Len(allTokens') = Len(allTokens)
        /\ \A i \in 1..Len(allTokens) : i # idx => allTokens'[i] = allTokens[i]
        /\ idx # 0 =>
              LET stored == allTokens[idx]
                  result == allTokens'[idx]
              IN  /\ DOMAIN result = (DOMAIN stored) \cup (DOMAIN first) \cup (DOMAIN second)
                  /\ \A f \in DOMAIN second : result[f] = second[f]
                  /\ \A f \in (DOMAIN first) \ (DOMAIN second) : result[f] = first[f]
                  /\ \A f \in (DOMAIN stored) \ ((DOMAIN first) \cup (DOMAIN second)) :
                        result[f] = stored[f]

\* C12: a tokens_updated batch with two items for one stored address applies
\* both in payload order: a field of both items ends with the second item's
\* value, a field of one item with that item's, and a field of neither keeps
\* the value it had before the batch.
C12_SecondItemWins ==
    [][lastOp'.name = "tokens_updated" =>
          \A event \in C12_Events :
             tokens_updated(event) =>
                C12_Step(event.data.items[1], event.data.items[2])]_vars

\* the first counted event was a batch of the volume patch and then the
\* liquidity patch of one record: price_sol is the second item's, volume_sol
\* the first's, liquidity_sol the second's, the rest the snapshot's
C12_Witness ==
    /\ lastOp.name = "tokens_updated"
    /\ updateCount = 1
    /\ \E i \in 1..Len(allTokens) :
          /\ Get(allTokens[i], "price_sol") = 2
          /\ Get(allTokens[i], "volume_sol") = 2
          /\ Get(allTokens[i], "liquidity_sol") = 2
          /\ Get(allTokens[i], "price_24hr_change") = 1
          /\ Get(allTokens[i], "token_name") = 1

-----------------------------------------------------------------------------
(* SpecRace: overlapping fetches.  The server answers the request of each  *)
(* call site with a snapshot of its own, so the collection shows whose     *)
(* response was applied last.  The request of line 233 is the first one    *)
(* issued: nothing issues it again.                                        *)

RaceSnapshot(site) ==
    Listing(CASE site = "init" -> 1 [] site = "connect" -> 2 [] OTHER -> 3)

RaceResponse(site) == [kind |-> "nested", tokens |-> RaceSnapshot(site)]

RaceNext ==
    \/ \E req \in pending :
          \E resp \in {RaceResponse(req), [kind |-> "error"]} : fetchTokens(req, resp)
    \/ applyFilters
    \/ connect
    \/ disconnect

SpecRace == Init /\ [][RaceNext]_vars

\* C13: responses are applied in arrival order with no staleness check: the
\* response that arrives becomes the collection, also when it answers the
\* first request and the response to a request issued later was applied
\* before it.
C13_LastArrivalWins ==
    [][lastOp'.name = "fetchTokens" =>
          \A req \in pending :
             fetchTokens(req, RaceResponse(req)) =>
                /\ allTokens' = RaceSnapshot(req)
                /\ filteredTokens' = RaceSnapshot(req)
                /\ dom'.pageTokens = RaceSnapshot(req)]_vars

\* the requests of line 233 and of connect have both been answered, the
\* collection is the response to the first of them: it arrived last
C13_Witness ==
    /\ lastOp.name = "fetchTokens"
    /\ status = "connected"
    /\ pending = {}
    /\ allTokens = RaceSnapshot("init")
    /\ dom.pageTokens = RaceSnapshot("init")

\* the ticks of an event, when they are objects, no two for one address
C14_Ticks(events) ==
    {items \in {AsArray(event.data) : event \in events} : OneItemPerAddress(items)}

\* the value C14 gives field f of a record after a tick that carries it
\* as field carried, or does not carry it
C14_Kept(stored, item, f, carried) ==
    IF carried \in DOMAIN item THEN item[carried] ELSE Get(stored, f)

\* what C14 says of one price_update or volume_spike step over items, whose
\* ticks write the fields written
C14_Step(items, written) ==
    /\ Len(allTokens') = Len(allTokens)
    /\ \A i \in 1..Len(allTokens) :
          LET stored == allTokens[i]
              result == allTokens'[i]
              hit == {k \in 1..Len(items) :
                        /\ Addr(items[k]) = Addr(stored)
                        /\ \A h \in 1..(i - 1) : Addr(allTokens[h]) # Addr(stored)}
          IN  IF hit = {} THEN result = stored
              ELSE LET item == items[CHOOSE k \in hit : TRUE]
                   IN  /\ \A f \in (DOMAIN stored) \ DOMAIN written :
                              f \in DOMAIN result /\ result[f] = stored[f]
                       /\ DOMAIN result \subseteq (DOMAIN stored) \cup DOMAIN written
                       /\ \A f \in DOMAIN written :
                              Get(result, f) = C14_Kept(stored, item, f, written[f])

\* C14: a price_update item for a stored address changes only the record's
\* price_sol and price_24hr_change, a volume_spike item only its volume_sol;
\* every other field and record stays, and a field whose value the tick
\* does not carry keeps its stored value.
C14_TickWritesOnlyCarried ==
    [][/\ lastOp'.name = "price_update" =>
            \A event \in PriceEvents :
               AsArray(event.data) \in C14_Ticks(PriceEvents) /\ price_update(event) =>
                  C14_Step(AsArray(event.data),
                           [price_sol |-> "new_price", price_24hr_change |-> "change_percent"])
       /\ lastOp'.name = "volume_spike" =>
            \A event \in VolumeEvents :
               AsArray(event.data) \in C14_Ticks(VolumeEvents) /\ volume_spike(event) =>
                  C14_Step(AsArray(event.data), [volume_sol |-> "new_volume"])]_vars

-----------------------------------------------------------------------------
(* SpecEvict: a collection filled to its bound by a snapshot of 100        *)
(* records, then patch events for the record at its tail (the batch of     *)
(* tokens_updated patches the record at the head too), new_token events    *)
(* with addresses of their own, and the page buttons.                      *)

\* counted channel events in one behaviour of SpecEvict
MaxEvictUpdates == 2

TailAddr == Addr(allTokens[Len(allTokens)])

EvictNext ==
    \/ \E req \in pending :
          fetchTokens(req, [kind |-> "nested", tokens |-> Listing(MaxTokens)])
    \/ connect
    \/ prevPage
    \/ nextPage
    \/ /\ updateCount < MaxEvictUpdates
       /\ allTokens # <<>>
       /\ \/ tokens_updated([data |-> [kind |-> "array", items |->
                  <<[token_address |-> TailAddr, price_sol |-> 2],
                    [token_address |-> Addr(allTokens[1]), price_sol |-> 2]>>]])
          \/ price_update([data |-> [kind |-> "object", item |->
                  [token_address |-> TailAddr, new_price |-> 2, change_percent |-> 2]]])
          \/ volume_spike([data |-> [kind |-> "object", item |->
                  [token_address |-> TailAddr, new_volume |-> 2]]])
          \/ new_token([data |-> [kind |-> "object", item |->
                  Sparse(Unlisted + updateCount)]])

SpecEvict == Init /\ [][EvictNext]_vars

\* C15: tokens_updated, price_update and volume_spike leave every record at
\* its position, and the new_token that overflows the collection evicts the
\* record at the tail, the oldest inserted, also when it has just been
\* patched.
C15_EvictsOldestInserted ==
    [][/\ lastOp'.name \in PatchHandlers =>
            AddrSeq(allTokens') = AddrSeq(allTokens)
       /\ lastOp'.name = "new_token" /\ Len(allTokens) = MaxTokens =>
            /\ Len(allTokens') = MaxTokens
            /\ Tail(allTokens') = SubSeq(allTokens, 1, MaxTokens - 1)
            /\ allTokens[MaxTokens] \notin Range(allTokens')]_vars

\* the first counted event patched record 100 at the tail of the snapshot,
\* the second was the new_token that evicted it: the collection is the new
\* token and the records 1..99 as the snapshot gave them
C15_Witness ==
    /\ lastOp.name = "new_token"
    /\ updateCount = 2
    /\ pending = {"init"}
    /\ allTokens = <<Sparse(Unlisted + 1)>> \o Listing(MaxTokens - 1)

\* the handlers that run updateCount++
CountedHandlers == PatchHandlers \cup {"new_token"}

\* C16: updateCount goes up by exactly one with each tokens_updated,
\* price_update, volume_spike and new_token event, however many records the
\* event patches, and no fetch, connect or page button changes it: it never
\* goes down and is never reset.
C16_CounterOncePerEvent ==
    [][/\ updateCount' >= updateCount
       /\ lastOp'.name \in CountedHandlers => updateCount' = updateCount + 1
       /\ lastOp'.name \notin CountedHandlers => updateCount' = updateCount]_vars

\* the first counted event was a batch that patched the record at the head
\* and the record at the tail of the snapshot: the counter shows 1
C16_Witness ==
    /\ lastOp.name = "tokens_updated"
    /\ updateCount = 1
    /\ dom.liveUpdates = 1
    /\ Len(allTokens) = MaxTokens
    /\ Get(allTokens[1], "price_sol") = 2
    /\ Get(allTokens[MaxTokens], "price_sol") = 2

\* the tokens_updated batches of objects
C17_Patches ==
    {event \in PatchEvents :
        /\ IsArrayData(event.data)
        /\ event.data.items # <<>>
        /\ \A k \in 1..Len(event.data.items) : ~IsNull(event.data.items[k])}

\* the next successful snapshot over an emptied collection installs itself
C17_SnapshotHeals ==
    /\ lastOp'.name = "fetchTokens" =>
          \A req \in pending, resp \in C5_Responses :
             fetchTokens(req, resp) =>
                /\ allTokens' = resp.tokens
                /\ filteredTokens' = resp.tokens
                /\ dom'.pageTokens = PageSlice(resp.tokens, currentPage)
    /\ lastOp'.name = "initial_data" /\ lastOp'.rendered =>
          \A event \in C5_Events :
             initial_data(event) =>
                /\ allTokens' = event.data.items
                /\ filteredTokens' = event.data.items
                /\ dom'.pageTokens = PageSlice(event.data.items, currentPage)

\* C17 as claimed: once a failed fetch has emptied the collection, the next
\* successful snapshot makes the collection that snapshot, and the next
\* patch event brings the records it names back into the displayed
\* collection.
C17_SelfHealsOnSnapshotOrPatch ==
    [][lastOp.name = "fetchTokens_catch" =>
          /\ C17_SnapshotHeals
          /\ lastOp'.name = "tokens_updated" =>
                \A event \in C17_Patches :
                   tokens_updated(event) =>
                      ItemAddrs(event.data.items) \subseteq Range(AddrSeq(filteredTokens'))]_vars

\* C17, amended: once the collection has been emptied, the next successful
\* fetch response or initial_data makes the collection and the working
\* sequence exactly that snapshot; a patch event brings no record back, the
\* collection and the view stay empty after it.
C17_SelfHealsOnSnapshotOnly ==
    [][allTokens = <<>> =>
          /\ C17_SnapshotHeals
          /\ lastOp'.name \in PatchHandlers =>
                /\ allTokens' = <<>>
                /\ filteredTokens' = <<>>
                /\ dom'.pageTokens = <<>>]_vars

\* a patch event has run over a collection that was emptied after the stats
\* had counted its records, and the collection is still empty
C17_Witness ==
    /\ lastOp.name \in PatchHandlers
    /\ ~lastOp.threw
    /\ dom.totalTokens > 0
    /\ dom.liveUpdates < updateCount
    /\ allTokens = <<>>
    /\ filteredTokens = <<>>

-----------------------------------------------------------------------------
(* SpecStats: snapshots and new tokens whose records carry their volume as *)
(* volume_sol, as volume_24h, as both or not at all.                       *)

\* records in the longest snapshot of SpecStats
MaxStatLen == 2

\* counted channel events in one behaviour of SpecStats
MaxStatUpdates == 1

StatTokens ==
    {[token_address |-> 1],
     [token_address |-> 1, volume_sol |-> 2],
     [token_address |-> 1, volume_24h |-> 3],
     [token_address |-> 1, volume_sol |-> 0, volume_24h |-> 3],
     [token_address |-> 1, volume_sol |-> 2, volume_24h |-> 3]}

StatSnapshots == SeqsUpTo(StatTokens, MaxStatLen)

StatsNext ==
    \/ \E req \in pending, s \in StatSnapshots :
          fetchTokens(req, [kind |-> "nested", tokens |-> s])
    \/ connect
    \/ /\ updateCount < MaxStatUpdates
       /\ \E t \in StatTokens : new_token([data |-> [kind |-> "object", item |-> t]])

SpecStats == Init /\ [][StatsNext]_vars

\* the stats have been written by the handler that ran last
C18_StatsWritten == lastOp.rendered /\ dom.pageTokens # <<>>

RECURSIVE C18_Total(_)
\* the sum of a sequence of numbers
C18_Total(values) ==
    IF values = <<>> THEN 0
    ELSE values[Len(values)] + C18_Total(SubSeq(values, 1, Len(values) - 1))

\* the sum of volume(t) over the records t of tokens
C18_Sum(tokens, volume(_)) == C18_Total([i \in 1..Len(tokens) |-> volume(tokens[i])])

\* volume_sol, 0 when the record has none
C18_SolOrZero(t) == IF "volume_sol" \in DOMAIN t THEN t.volume_sol ELSE 0

\* volume_sol when the record has one that is not 0, else volume_24h when
\* the record has one, else 0
C18_SolOr24h(t) ==
    IF "volume_sol" \in DOMAIN t /\ t.volume_sol # 0 THEN t.volume_sol
    ELSE IF "volume_24h" \in DOMAIN t THEN t.volume_24h
    ELSE 0

\* C18 as claimed: the stats written are the length of the collection, the
\* sum of volume_sol over its records with a missing volume_sol counted as
\* 0, and the update counter.
C18_StatsSumVolumeSol ==
    C18_StatsWritten =>
        /\ dom.totalTokens = Len(allTokens)
        /\ dom.liveUpdates = updateCount
        /\ dom.totalVolume = C18_Sum(allTokens, C18_SolOrZero)

\* C18, amended: the stats written are the length of the collection, the
\* update counter, and the sum over its records of volume_sol or, where
\* volume_sol is missing or 0, of volume_24h, a record with neither
\* counting 0.
C18_StatsSumEitherVolume ==
    C18_StatsWritten =>
        /\ dom.totalTokens = Len(allTokens)
        /\ dom.liveUpdates = updateCount
        /\ dom.totalVolume = C18_Sum(allTokens, C18_SolOr24h)

\* the stats of a new token with volume_sol 2 over a record that has only
\* volume_24h 3: two tokens, volume 5, one update
C18_Witness ==
    /\ C18_StatsWritten
    /\ allTokens = <<[token_address |-> 1, volume_sol |-> 2],
                     [token_address |-> 1, volume_24h |-> 3]>>
    /\ dom.totalTokens = 2
    /\ dom.totalVolume = 5
    /\ dom.liveUpdates = 1

\* C19: after every handler that renders the view, the token count shown is
\* the length of the collection and the update counter shown is
\* updateCount, also when the page rendered is empty.
C19_StatsFollowRender ==
    lastOp.rendered =>
        /\ dom.totalTokens = Len(allTokens)
        /\ dom.liveUpdates = updateCount

\* C20: after every handler and every fetch completion that returns,
\* whatever the payload, filteredTokens holds the records of allTokens in
\* their order.
C20_WorkingSequenceInStep ==
    ~lastOp.threw =>
        /\ Len(filteredTokens) = Len(allTokens)
        /\ \A i \in 1..Len(allTokens) : filteredTokens[i] = allTokens[i]

====
